---- MODULE Spec2Model ----
(***************************************************************************)
(* The booking engine of the Movie Booking API (server/server.js): the     *)
(* Screening and Booking collections and the request handlers              *)
(*   POST /api/screenings, POST /api/bookings, POST /api/bookings/:id/payment. *)
(* Every handler is an async function: the code between two awaits runs    *)
(* without interruption, and each awaited database operation (findById,    *)
(* save) takes effect at its own instant, so handlers of different         *)
(* requests interleave at the awaits.                                      *)
(***************************************************************************)
EXTENDS Integers, Sequences, FiniteSets

\* ------------------------------------------------------------------ bounds
MaxRequests == 3
MaxScreenings == 1
MaxCapacity == 2
MaxSeats == 2

Requests == 1..MaxRequests
Prices == {10}

\* User ids (the id claim of a verified token), named in order of appearance.
UserNames == <<"u1", "u2">>
Users == {UserNames[i] : i \in DOMAIN UserNames}

\* The seat labels of a theater, in layout order.
SeatNames == <<"A1", "A2", "A3", "A4">>
SeatIds == {SeatNames[i] : i \in 1..MaxSeats}

\* The seat arrays a request body carries: `seats`, an array of seat labels,
\* here every selection of at most MaxSeats distinct labels, in layout order.
SeatLists ==
    {[i \in DOMAIN l |-> SeatNames[l[i]]] :
        l \in {k \in UNION {[1..n -> 1..MaxSeats] : n \in 0..MaxSeats} :
                  \A i, j \in DOMAIN k : i < j => k[i] < k[j]}}

VARIABLES
    screenings,   \* the Screening collection: document _id = index
    bookings,     \* the Booking collection: document _id = index
    pc,           \* where each request's handler stands
    req,          \* each request: route, authenticated user, body, params
    local,        \* each handler's local documents (screening, booking)
    res,          \* each request's response: status, message, booking
    now           \* the server's clock (Date.now), in ticks

vars == <<screenings, bookings, pc, req, local, res, now>>

\* ------------------------------------------------------------ documents
NoScreening == [id |-> 0, capacity |-> 0, availableSeats |-> 0, price |-> 0]
NoBooking == [id |-> 0, userId |-> "", screeningId |-> 0, seats |-> <<>>,
              totalAmount |-> 0, paymentStatus |-> "", bookingTime |-> 0]
\* The Authorization header's bearer token: the payload it carries, the key
\* it was signed with, and whether its `exp` has passed.
NoToken == [id |-> "", role |-> "", secret |-> "", expired |-> FALSE]
NoRequest == [route |-> "", user |-> "", screeningId |-> 0, seats |-> <<>>,
              id |-> 0, during |-> {},
              token |-> NoToken, role |-> "",
              capacity |-> 0, availableSeats |-> 0, price |-> 0]
NoLocal == [screening |-> NoScreening, booking |-> NoBooking]
NoResponse == [status |-> 0, message |-> "", booking |-> NoBooking]

\* paymentStatus: enum ['pending', 'completed', 'failed'], default 'pending'
PaymentStatuses == {"pending", "completed", "failed"}
DefaultPaymentStatus == "pending"

\* new Screening(req.body)
NewScreening(id, capacity, availableSeats, price) ==
    [id |-> id, capacity |-> capacity, availableSeats |-> availableSeats,
     price |-> price]

\* (mutant) the check compares the capacity, not the seats still available
NotEnoughSeatsByCapacity(screening, seats) == screening.capacity < Len(seats)

\* (mutant) the comparison is off by one: a request for one seat more than
\* is free passes
NotEnoughSeatsOffByOne(screening, seats) ==
    screening.availableSeats + 1 < Len(seats)

\* if (screening.availableSeats < seats.length)
NotEnoughSeats(screening, seats) == screening.availableSeats < Len(seats)

\* (mutant) the amount forgets the number of seats
TotalAmountOneSeat(seats, screening) == screening.price

\* const totalAmount = seats.length * screening.price
TotalAmount(seats, screening) == Len(seats) * screening.price

\* new Booking({ userId, screeningId, seats, totalAmount }); the schema's
\* defaults fill paymentStatus and bookingTime (Date.now)
NewBooking(userId, screeningId, seats, totalAmount) ==
    [id |-> 0, userId |-> userId, screeningId |-> screeningId, seats |-> seats,
     totalAmount |-> totalAmount, paymentStatus |-> DefaultPaymentStatus,
     bookingTime |-> now]

\* screening.availableSeats -= seats.length
TakeSeats(screening, seats) ==
    [screening EXCEPT !.availableSeats = @ - Len(seats)]

\* (mutant) a repeated payment flips the booking back to pending
MarkPaidToggle(booking) ==
    [booking EXCEPT !.paymentStatus =
        IF @ = "completed" THEN "pending" ELSE "completed"]

\* (mutant) a payment on a booking that is not pending marks it failed
MarkPaidOrFailed(booking) ==
    [booking EXCEPT !.paymentStatus =
        IF @ = "pending" THEN "completed" ELSE "failed"]

\* booking.paymentStatus = 'completed'
MarkPaid(booking) == [booking EXCEPT !.paymentStatus = "completed"]

\* res.status(s).json({ message }) ; the handler returns and its locals die
Respond(r, status, message, booking) ==
    /\ res' = [res EXCEPT ![r] = [status |-> status, message |-> message,
                                  booking |-> booking]]
    /\ pc' = [pc EXCEPT ![r] = "done"]
    /\ local' = [local EXCEPT ![r] = NoLocal]

InFlight(r) == pc[r] \notin {"idle", "done"}

\* ------------------------------------------------------------------ Init
Init ==
    /\ screenings = <<>>
    /\ bookings = <<>>
    /\ pc = [r \in Requests |-> "idle"]
    /\ req = [r \in Requests |-> NoRequest]
    /\ local = [r \in Requests |-> NoLocal]
    /\ res = [r \in Requests |-> NoResponse]
    /\ now = 0

\* --------------------------------------------------- POST /api/screenings
\* An admin's request: the body becomes a Screening document, saved as is.
CreateScreening(capacity, availableSeats, price) ==
    /\ Len(screenings) < MaxScreenings
    /\ screenings' = Append(screenings,
            NewScreening(Len(screenings) + 1, capacity, availableSeats, price))
    /\ UNCHANGED <<now, bookings, pc, req, local, res>>

\* ------------------------------------------------------ request arrival
\* Requests are numbered in their order of arrival; `during` is the set of
\* requests whose handlers are running when this one arrives.
Arrive(r, request, first) ==
    /\ pc[r] = "idle"
    /\ \A q \in Requests : q < r => pc[q] # "idle"
    /\ \E i \in DOMAIN UserNames :
          /\ request.user = UserNames[i]
          /\ i > 1 => \E q \in Requests : q < r /\ req[q].user = UserNames[i - 1]
    /\ req' = [req EXCEPT ![r] =
                 [request EXCEPT !.during = {q \in Requests : InFlight(q)}]]
    /\ pc' = [pc EXCEPT ![r] = first]
    /\ UNCHANGED <<now, screenings, bookings, local, res>>

\* POST /api/bookings with body { screeningId, seats } and a valid token
ArriveCreateBooking(r, user, screeningId, seats) ==
    Arrive(r, [NoRequest EXCEPT !.route = "createBooking", !.user = user,
                                !.screeningId = screeningId, !.seats = seats],
           "findScreening")

\* POST /api/bookings/:id/payment with a valid token
ArriveProcessPayment(r, user, id) ==
    /\ id \in 1..(Len(bookings) + 1)
    /\ Arrive(r, [NoRequest EXCEPT !.route = "processPayment", !.user = user,
                                   !.id = id],
              "findBooking")

\* ----------------------------------------------------- POST /api/bookings
\* (mutant) no `if (!screening)`: reading screening.availableSeats of null
\* throws and the catch block answers 400
FindScreeningNoNullCheck(r) ==
    /\ pc[r] = "findScreening"
    /\ UNCHANGED <<now, screenings, bookings, req>>
    /\ IF req[r].screeningId \notin DOMAIN screenings
       THEN /\ Respond(r, 400, "error", NoBooking)
       ELSE LET screening == screenings[req[r].screeningId]
                seats == req[r].seats
            IN  IF NotEnoughSeats(screening, seats)
                THEN /\ Respond(r, 400, "Not enough seats available", NoBooking)
                ELSE /\ local' = [local EXCEPT ![r] =
                            [screening |-> TakeSeats(screening, seats),
                             booking |-> NewBooking(req[r].user, req[r].screeningId,
                                            seats, TotalAmount(seats, screening))]]
                     /\ pc' = [pc EXCEPT ![r] = "saveScreening"]
                     /\ UNCHANGED res

\* await Screening.findById(screeningId), then the code up to screening.save()
FindScreening(r) ==
    /\ pc[r] = "findScreening"
    /\ UNCHANGED <<now, screenings, bookings, req>>
    /\ IF req[r].screeningId \notin DOMAIN screenings
       THEN /\ Respond(r, 404, "Screening not found", NoBooking)
       ELSE LET screening == screenings[req[r].screeningId]
                seats == req[r].seats
            IN  IF NotEnoughSeats(screening, seats)
                THEN /\ Respond(r, 400, "Not enough seats available", NoBooking)
                ELSE /\ local' = [local EXCEPT ![r] =
                            [screening |-> TakeSeats(screening, seats),
                             booking |-> NewBooking(req[r].user, req[r].screeningId,
                                            seats, TotalAmount(seats, screening))]]
                     /\ pc' = [pc EXCEPT ![r] = "saveScreening"]
                     /\ UNCHANGED res

\* (mutant) the update carries no _id filter: every screening is written
SaveScreeningEvery(r) ==
    /\ pc[r] = "saveScreening"
    /\ screenings' =
          IF Len(req[r].seats) = 0
          THEN screenings
          ELSE [t \in DOMAIN screenings |->
                  [screenings[t] EXCEPT !.availableSeats =
                                        local[r].screening.availableSeats]]
    /\ pc' = [pc EXCEPT ![r] = "saveBooking"]
    /\ UNCHANGED <<now, bookings, req, local, res>>

\* await screening.save(): the modified path availableSeats is written; an
\* assignment of the value the document already had (no seats asked for)
\* modifies nothing, and save() then writes nothing
SaveScreening(r) ==
    /\ pc[r] = "saveScreening"
    /\ screenings' =
          IF Len(req[r].seats) = 0
          THEN screenings
          ELSE [screenings EXCEPT ![local[r].screening.id].availableSeats =
                                        local[r].screening.availableSeats]
    /\ pc' = [pc EXCEPT ![r] = "saveBooking"]
    /\ UNCHANGED <<now, bookings, req, local, res>>

\* await screening.save() rejects: catch (error) answers 400
SaveScreeningError(r) ==
    /\ pc[r] = "saveScreening"
    /\ Respond(r, 400, "error", NoBooking)
    /\ UNCHANGED <<now, screenings, bookings, req>>

\* await booking.save(), then res.status(201).json(newBooking)
SaveBooking(r) ==
    /\ pc[r] = "saveBooking"
    /\ LET newBooking == [local[r].booking EXCEPT !.id = Len(bookings) + 1]
       IN  /\ bookings' = Append(bookings, newBooking)
           /\ Respond(r, 201, "", newBooking)
    /\ UNCHANGED <<now, screenings, req>>

\* await booking.save() rejects: catch (error) answers 400
SaveBookingError(r) ==
    /\ pc[r] = "saveBooking"
    /\ Respond(r, 400, "error", NoBooking)
    /\ UNCHANGED <<now, screenings, bookings, req>>

\* ------------------------------------------ POST /api/bookings/:id/payment
\* (mutant) no `if (!booking)`: reading booking.userId of null throws and the
\* catch block answers 400
FindBookingNoNullCheck(r) ==
    /\ pc[r] = "findBooking"
    /\ UNCHANGED <<now, screenings, bookings, req>>
    /\ IF req[r].id \notin DOMAIN bookings
       THEN /\ Respond(r, 400, "error", NoBooking)
       ELSE LET booking == bookings[req[r].id]
            IN  IF booking.userId # req[r].user
                THEN /\ Respond(r, 403, "Not authorized to process this booking",
                                NoBooking)
                ELSE /\ local' = [local EXCEPT ![r].booking = MarkPaid(booking)]
                     /\ pc' = [pc EXCEPT ![r] = "savePayment"]
                     /\ UNCHANGED res

\* (mutant) no ownership check: any authenticated user pays any booking
FindBookingNoOwnerCheck(r) ==
    /\ pc[r] = "findBooking"
    /\ UNCHANGED <<now, screenings, bookings, req>>
    /\ IF req[r].id \notin DOMAIN bookings
       THEN /\ Respond(r, 404, "Booking not found", NoBooking)
       ELSE LET booking == bookings[req[r].id]
            IN  /\ local' = [local EXCEPT ![r].booking = MarkPaid(booking)]
                /\ pc' = [pc EXCEPT ![r] = "savePayment"]
                /\ UNCHANGED res

\* await Booking.findById(req.params.id), then the code up to booking.save()
FindBooking(r) ==
    /\ pc[r] = "findBooking"
    /\ UNCHANGED <<now, screenings, bookings, req>>
    /\ IF req[r].id \notin DOMAIN bookings
       THEN /\ Respond(r, 404, "Booking not found", NoBooking)
       ELSE LET booking == bookings[req[r].id]
            IN  IF booking.userId # req[r].user
                THEN /\ Respond(r, 403, "Not authorized to process this booking",
                                NoBooking)
                ELSE /\ local' = [local EXCEPT ![r].booking = MarkPaid(booking)]
                     /\ pc' = [pc EXCEPT ![r] = "savePayment"]
                     /\ UNCHANGED res

\* (mutant) the handler answers without awaiting booking.save()
SavePaymentNotSaved(r) ==
    /\ pc[r] = "savePayment"
    /\ Respond(r, 200, "Payment processed successfully", local[r].booking)
    /\ UNCHANGED <<now, screenings, bookings, req>>

\* (mutant) the payment also settles the amount due: totalAmount is cleared
SavePaymentSettles(r) ==
    /\ pc[r] = "savePayment"
    /\ bookings' = [bookings EXCEPT
            ![local[r].booking.id].paymentStatus = local[r].booking.paymentStatus,
            ![local[r].booking.id].totalAmount = 0]
    /\ Respond(r, 200, "Payment processed successfully", local[r].booking)
    /\ UNCHANGED <<now, screenings, req>>

\* (mutant) the update carries no _id filter: every booking is marked
SavePaymentEvery(r) ==
    /\ pc[r] = "savePayment"
    /\ bookings' = [b \in DOMAIN bookings |->
                      [bookings[b] EXCEPT !.paymentStatus =
                                          local[r].booking.paymentStatus]]
    /\ Respond(r, 200, "Payment processed successfully", local[r].booking)
    /\ UNCHANGED <<now, screenings, req>>

\* await booking.save(): the modified path paymentStatus is written; then
\* res.json({ message: 'Payment processed successfully', booking })
SavePayment(r) ==
    /\ pc[r] = "savePayment"
    /\ bookings' = [bookings EXCEPT
            ![local[r].booking.id].paymentStatus = local[r].booking.paymentStatus]
    /\ Respond(r, 200, "Payment processed successfully", local[r].booking)
    /\ UNCHANGED <<now, screenings, req>>

\* (mutant) a payment that fails removes the booking it was for
SavePaymentErrorRemoves(r) ==
    /\ pc[r] = "savePayment"
    /\ bookings' = IF local[r].booking.id = Len(bookings)
                   THEN SubSeq(bookings, 1, Len(bookings) - 1)
                   ELSE bookings
    /\ Respond(r, 400, "error", NoBooking)
    /\ UNCHANGED <<now, screenings, req>>

\* await booking.save() rejects: catch (error) answers 400
SavePaymentError(r) ==
    /\ pc[r] = "savePayment"
    /\ Respond(r, 400, "error", NoBooking)
    /\ UNCHANGED <<now, screenings, bookings, req>>

\* ------------------------------------------------------------------ Next
\* Screenings are created with every seat free.
Next ==
    \/ \E c \in 1..MaxCapacity, p \in Prices : CreateScreening(c, c, p)
    \/ \E r \in Requests, u \in Users, s \in 1..MaxScreenings, l \in SeatLists :
            ArriveCreateBooking(r, u, s, l)
    \/ \E r \in Requests, u \in Users, b \in 1..MaxRequests :
            ArriveProcessPayment(r, u, b)
    \/ \E r \in Requests : FindScreening(r)
    \/ \E r \in Requests : SaveScreening(r)
    \/ \E r \in Requests : SaveScreeningError(r)
    \/ \E r \in Requests : SaveBooking(r)
    \/ \E r \in Requests : SaveBookingError(r)
    \/ \E r \in Requests : FindBooking(r)
    \/ \E r \in Requests : SavePayment(r)
    \/ \E r \in Requests : SavePaymentError(r)

Spec == Init /\ [][Next]_vars

\* ------------------------------------------------------------- scheduling
\* The continuation of request r's handler: once an awaited operation has
\* settled, the event loop runs the code after it.
Handle(r) ==
    \/ FindScreening(r)
    \/ SaveScreening(r) \/ SaveScreeningError(r)
    \/ SaveBooking(r) \/ SaveBookingError(r)
    \/ FindBooking(r)
    \/ SavePayment(r) \/ SavePaymentError(r)

\* Every handler that has begun runs to its response; whether a further
\* request ever arrives is up to the clients.
SpecFair == Spec /\ \A r \in Requests : WF_vars(Handle(r))

\* ------------------------------------------------------------------ time
\* How long a reservation is held before it expires, in ticks.
HoldDuration == 1
MaxTime == HoldDuration + 1

\* reservationExpiry = the booking's creation time + holdDuration
ReservationExpiry(booking) == booking.bookingTime + HoldDuration

\* Time passes: Date.now advances. No handler and no timer of the server
\* runs on the passing of time.
Tick ==
    /\ now < MaxTime
    /\ now' = now + 1
    /\ UNCHANGED <<screenings, bookings, pc, req, local, res>>

\* The requests of Next while time passes, every database operation
\* succeeding.
NextClock ==
    \/ Tick
    \/ \E c \in 1..MaxCapacity, p \in Prices : CreateScreening(c, c, p)
    \/ \E r \in Requests, u \in Users, s \in 1..MaxScreenings, l \in SeatLists :
            ArriveCreateBooking(r, u, s, l)
    \/ \E r \in Requests, u \in Users, b \in 1..MaxRequests :
            ArriveProcessPayment(r, u, b)
    \/ \E r \in Requests : FindScreening(r)
    \/ \E r \in Requests : SaveScreening(r)
    \/ \E r \in Requests : SaveBooking(r)
    \/ \E r \in Requests : FindBooking(r)
    \/ \E r \in Requests : SavePayment(r)

SpecClock == Init /\ [][NextClock]_vars

\* ---------------------------------------------------------- cancellation
\* A client's cancelBooking request for booking `id`. The application
\* registers no route for it.
ArriveCancelBooking(r, user, id) ==
    /\ id \in 1..(Len(bookings) + 1)
    /\ Arrive(r, [NoRequest EXCEPT !.route = "cancelBooking", !.user = user,
                                   !.id = id],
              "noRoute")

\* No app.<method>(path) matches the request: Express answers 404 and no
\* handler runs.
NoRoute(r) ==
    /\ pc[r] = "noRoute"
    /\ Respond(r, 404, "Not Found", NoBooking)
    /\ UNCHANGED <<now, screenings, bookings, req>>

NextCancel ==
    \/ Next
    \/ \E r \in Requests, u \in Users, b \in 1..MaxRequests :
            ArriveCancelBooking(r, u, b)
    \/ \E r \in Requests : NoRoute(r)

SpecCancel == Init /\ [][NextCancel]_vars

\* -------------------------------------------------------- two screenings
\* Two screenings exist, every seat free, and clients book seats of either.
InitIso ==
    /\ \E c1, c2 \in 1..MaxCapacity, p \in Prices :
          screenings = <<NewScreening(1, c1, c1, p), NewScreening(2, c2, c2, p)>>
    /\ bookings = <<>>
    /\ pc = [r \in Requests |-> "idle"]
    /\ req = [r \in Requests |-> NoRequest]
    /\ local = [r \in Requests |-> NoLocal]
    /\ res = [r \in Requests |-> NoResponse]
    /\ now = 0

NextIso ==
    \/ \E r \in Requests, u \in Users, s \in DOMAIN screenings, l \in SeatLists :
            ArriveCreateBooking(r, u, s, l)
    \/ \E r \in Requests : FindScreening(r)
    \/ \E r \in Requests : SaveScreening(r)
    \/ \E r \in Requests : SaveScreeningError(r)
    \/ \E r \in Requests : SaveBooking(r)
    \/ \E r \in Requests : SaveBookingError(r)

SpecIso == InitIso /\ [][NextIso]_vars

\* -------------------------------------------------------- authentication
\* role: enum ['user', 'admin']
Roles == {"user", "admin"}

\* The key the server signs and verifies tokens with.
Secret == "SECRET_KEY"

\* jwt.sign({ id, username, role }, key, { expiresIn: '1h' }): a token is
\* its payload, the key that signed it and whether the hour has passed.
Sign(id, role, key, expired) ==
    [id |-> id, role |-> role, secret |-> key, expired |-> expired]

\* (mutant) the expiry of the token is ignored
VerifyIgnoreExpiration(token) == token.secret = Secret

\* jwt.verify(token, 'SECRET_KEY', callback): no err when the signature is
\* the server key's and the token has not expired
Verify(token) == token.secret = Secret /\ ~token.expired

\* authenticateToken: the response it sends, or status 0 where it calls next()
AuthenticateToken(token) ==
    IF token = NoToken
    THEN [status |-> 401, message |-> "Authentication required"]
    ELSE IF ~Verify(token)
         THEN [status |-> 403, message |-> "Invalid or expired token"]
         ELSE [status |-> 0, message |-> ""]

\* (mutant) any authenticated user passes
IsAdminAnyUser(user) == user.role \in Roles

\* isAdmin: req.user && req.user.role === 'admin'
IsAdmin(user) == user.role = "admin"

\* The first awaited operation of each route's handler.
FirstAwait(route) ==
    CASE route = "createScreening" -> "saveNewScreening"
      [] route = "createBooking" -> "findScreening"
      [] route = "processPayment" -> "findBooking"

\* A request is received and runs through its route's middleware
\* (authenticateToken, and isAdmin on POST /api/screenings): a middleware
\* answers it, or the handler starts with req.user = the token's payload.
Receive(r, request) ==
    /\ pc[r] = "idle"
    /\ \A q \in Requests : q < r => pc[q] # "idle"
    /\ LET auth == AuthenticateToken(request.token)
           received == [request EXCEPT !.during = {q \in Requests : InFlight(q)}]
       IN  IF auth.status # 0
           THEN /\ req' = [req EXCEPT ![r] = received]
                /\ Respond(r, auth.status, auth.message, NoBooking)
           ELSE /\ req' = [req EXCEPT ![r] =
                             [received EXCEPT !.user = request.token.id,
                                              !.role = request.token.role]]
                /\ IF request.route = "createScreening" /\ ~IsAdmin(request.token)
                   THEN Respond(r, 403, "Admin access required", NoBooking)
                   ELSE /\ pc' = [pc EXCEPT ![r] = FirstAwait(request.route)]
                        /\ UNCHANGED <<local, res>>
    /\ UNCHANGED <<now, screenings, bookings>>

\* POST /api/screenings with body { capacity, availableSeats, price, ... }
ReceiveCreateScreening(r, token, capacity, availableSeats, price) ==
    /\ Len(screenings) + Cardinality({q \in Requests : pc[q] = "saveNewScreening"})
          < MaxScreenings
    /\ Receive(r, [NoRequest EXCEPT !.route = "createScreening", !.token = token,
                                    !.capacity = capacity,
                                    !.availableSeats = availableSeats,
                                    !.price = price])

\* POST /api/bookings with body { screeningId, seats }
ReceiveCreateBooking(r, token, screeningId, seats) ==
    Receive(r, [NoRequest EXCEPT !.route = "createBooking", !.token = token,
                                 !.screeningId = screeningId, !.seats = seats])

\* POST /api/bookings/:id/payment
ReceiveProcessPayment(r, token, id) ==
    /\ id \in 1..(Len(bookings) + 1)
    /\ Receive(r, [NoRequest EXCEPT !.route = "processPayment", !.token = token,
                                    !.id = id])

\* new Screening(req.body); await screening.save(); res.status(201)
SaveNewScreening(r) ==
    /\ pc[r] = "saveNewScreening"
    /\ screenings' = Append(screenings,
            NewScreening(Len(screenings) + 1, req[r].capacity,
                         req[r].availableSeats, req[r].price))
    /\ Respond(r, 201, "", NoBooking)
    /\ UNCHANGED <<now, bookings, req>>

\* await screening.save() rejects: catch (error) answers 400
SaveNewScreeningError(r) ==
    /\ pc[r] = "saveNewScreening"
    /\ Respond(r, 400, "error", NoBooking)
    /\ UNCHANGED <<now, screenings, bookings, req>>

\* The tokens clients send to the booking routes: none, or a user's token,
\* signed with the server's key or another, fresh or expired.
UserTokens ==
    {NoToken} \cup {Sign(u, "user", k, x) :
                        u \in Users, k \in {Secret, "OTHER_KEY"}, x \in BOOLEAN}

\* Bookings and payments by clients with and without a valid token, on
\* screenings created with every seat free; every database operation
\* succeeds.
NextAuth ==
    \/ \E c \in 1..MaxCapacity, p \in Prices : CreateScreening(c, c, p)
    \/ \E r \in Requests, t \in UserTokens, s \in 1..MaxScreenings, l \in SeatLists :
            ReceiveCreateBooking(r, t, s, l)
    \/ \E r \in Requests, t \in UserTokens, b \in 1..MaxRequests :
            ReceiveProcessPayment(r, t, b)
    \/ \E r \in Requests : FindScreening(r)
    \/ \E r \in Requests : SaveScreening(r)
    \/ \E r \in Requests : SaveBooking(r)
    \/ \E r \in Requests : FindBooking(r)
    \/ \E r \in Requests : SavePayment(r)

SpecAuth == Init /\ [][NextAuth]_vars

\* The tokens the login route issues: any user's, with either role.
IssuedTokens == {Sign(u, ro, Secret, FALSE) : u \in Users, ro \in Roles}

\* The tokens clients send to POST /api/screenings: issued ones, and ones
\* that claim the admin role under a key of the client's own.
ScreeningTokens ==
    IssuedTokens \cup {Sign(u, "admin", "OTHER_KEY", FALSE) : u \in Users}

\* Screenings created through POST /api/screenings by clients of either
\* role, with any availableSeats in the body, and bookings on them.
NextAdmin ==
    \/ \E r \in Requests, t \in ScreeningTokens,
          c \in 1..MaxCapacity, a \in 0..(MaxCapacity + 1), p \in Prices :
            ReceiveCreateScreening(r, t, c, a, p)
    \/ \E r \in Requests : SaveNewScreening(r)
    \/ \E r \in Requests : SaveNewScreeningError(r)
    \/ \E r \in Requests, u \in Users, s \in 1..MaxScreenings, l \in SeatLists :
            ReceiveCreateBooking(r, Sign(u, "user", Secret, FALSE), s, l)
    \/ \E r \in Requests : FindScreening(r)
    \/ \E r \in Requests : SaveScreening(r)
    \/ \E r \in Requests : SaveBooking(r)

SpecAdmin == Init /\ [][NextAdmin]_vars

\* ================================================================ claims
\* The seats held or booked by the first n bookings for screening s:
\* the total of seats.length over them.
RECURSIVE SeatsBookedUpTo(_, _)
SeatsBookedUpTo(s, n) ==
    IF n = 0 THEN 0
    ELSE SeatsBookedUpTo(s, n - 1)
         + (IF bookings[n].screeningId = s THEN Len(bookings[n].seats) ELSE 0)

SeatsBooked(s) == SeatsBookedUpTo(s, Len(bookings))

SeatSet(seats) == {seats[i] : i \in DOMAIN seats}

IsCreateBooking(r) == req[r].route = "createBooking"
IsProcessPayment(r) == req[r].route = "processPayment"

\* Two requests whose handlers ran at the same time: the later one arrived
\* while the earlier one was being handled.
Concurrent(q, r) == q \in req[r].during \/ r \in req[q].during

\* Booking b exists and awaits its payment.
Pending(b) == b \in DOMAIN bookings /\ bookings[b].paymentStatus = "pending"

\* A booking that holds its seats: pending or completed.
Outstanding(b) == bookings[b].paymentStatus \in {"pending", "completed"}

\* ---- C1 (stated as claimed; the code violates it)
\* No oversell: in every reachable state the seats held or booked by a
\* screening's bookings never exceed the screening's capacity.
C1_NoOversell ==
    \A s \in DOMAIN screenings : SeatsBooked(s) <= screenings[s].capacity

\* ---- C2 (stated as claimed; the code violates it)
\* Mutual exclusion on overlapping seats: two concurrent createBooking
\* requests for the same screening whose seat lists share a seat never both
\* succeed.
C2_MutualExclusion ==
    \A q, r \in Requests :
        ( /\ q # r
          /\ IsCreateBooking(q) /\ IsCreateBooking(r)
          /\ Concurrent(q, r)
          /\ req[q].screeningId = req[r].screeningId
          /\ SeatSet(req[q].seats) \cap SeatSet(req[r].seats) # {} )
        => ~(res[q].status = 201 /\ res[r].status = 201)

\* ---- C3 (stated as claimed; the code violates it)
\* Seat disjointness: no seat of a screening appears in two different
\* outstanding bookings of that screening.
C3_SeatDisjointness ==
    \A a, b \in DOMAIN bookings :
        ( /\ a # b
          /\ bookings[a].screeningId = bookings[b].screeningId
          /\ Outstanding(a) /\ Outstanding(b) )
        => SeatSet(bookings[a].seats) \cap SeatSet(bookings[b].seats) = {}

\* ---- C4
\* All-or-nothing: a createBooking that asks for more seats than the
\* screening has free ends at its availability check with an error and
\* leaves the screening's inventory and the bookings unchanged.
C4_AllOrNothing ==
    [][\A r \in Requests :
        ( /\ pc[r] = "findScreening"
          /\ pc'[r] # "findScreening"
          /\ req[r].screeningId \in DOMAIN screenings
          /\ screenings[req[r].screeningId].availableSeats < Len(req[r].seats) )
        => /\ pc'[r] = "done"
           /\ res'[r].status = 400
           /\ res'[r].booking = NoBooking
           /\ screenings' = screenings
           /\ bookings' = bookings]_vars

\* A request for two seats was refused while one seat of two was free.
C4_Witness ==
    \E r \in Requests :
        /\ pc[r] = "done"
        /\ res[r].message = "Not enough seats available"
        /\ Len(req[r].seats) = 2
        /\ screenings[req[r].screeningId].capacity = 2
        /\ screenings[req[r].screeningId].availableSeats = 1

\* ---- C5 (stated as claimed; the code violates it)
\* No error leaves seats out of the inventory without a booking: once a
\* createBooking has answered with an error and no createBooking is in
\* flight, the seats missing from a screening's inventory are all covered
\* by its bookings.
C5_NoOrphanedSeats ==
    \A s \in DOMAIN screenings :
        ( /\ \E r \in Requests :
                /\ IsCreateBooking(r) /\ req[r].screeningId = s
                /\ pc[r] = "done" /\ res[r].status >= 400
          /\ \A r \in Requests : IsCreateBooking(r) => ~InFlight(r) )
        => screenings[s].capacity - screenings[s].availableSeats <= SeatsBooked(s)

\* ---- C6
\* A successful createBooking persists and returns a booking bound to the
\* request's user and screening, pending, with totalAmount = the number of
\* seats times the screening's price.
C6_BookingCreated ==
    \A r \in Requests :
        (IsCreateBooking(r) /\ pc[r] = "done" /\ res[r].status = 201)
        => LET b == res[r].booking
           IN  /\ b.id \in DOMAIN bookings
               /\ b.userId = req[r].user
               /\ b.screeningId = req[r].screeningId
               /\ b.seats = req[r].seats
               /\ b.paymentStatus = "pending"
               /\ b.totalAmount
                    = Len(req[r].seats) * screenings[req[r].screeningId].price
               /\ bookings[b.id] = [b EXCEPT !.paymentStatus = bookings[b.id].paymentStatus]

\* A booking of two seats was created.
C6_Witness ==
    \E r \in Requests :
        /\ IsCreateBooking(r) /\ pc[r] = "done" /\ res[r].status = 201
        /\ Len(req[r].seats) = 2

\* ---- C7 (stated as claimed; the code violates it)
\* processPayment on a booking whose status is not pending is rejected with
\* an error and changes nothing.
C7_PaymentOnlyWhenPending ==
    [][\A r \in Requests :
        ( /\ pc[r] = "findBooking"
          /\ pc'[r] # "findBooking"
          /\ req[r].id \in DOMAIN bookings
          /\ bookings[req[r].id].paymentStatus # "pending" )
        => /\ pc'[r] = "done"
           /\ res'[r].status >= 400
           /\ bookings' = bookings]_vars

\* ---- C8
\* Idempotent payment: a processPayment that completes on a booking already
\* completed changes no booking and no screening, and the booking stays the
\* one completed booking it was.
C8_IdempotentPayment ==
    [][\A r \in Requests :
        ( /\ pc[r] = "savePayment"
          /\ pc'[r] = "done"
          /\ res'[r].status = 200
          /\ bookings[req[r].id].paymentStatus = "completed" )
        => /\ bookings' = bookings
           /\ screenings' = screenings
           /\ res'[r].booking = bookings[req[r].id]]_vars

\* Two processPayment requests for the same booking both succeeded.
C8_Witness ==
    \E q, r \in Requests :
        /\ q # r
        /\ IsProcessPayment(q) /\ IsProcessPayment(r)
        /\ req[q].id = req[r].id
        /\ res[q].status = 200 /\ res[r].status = 200
        /\ bookings[req[r].id].paymentStatus = "completed"

\* ---- C9
\* The status state machine: a booking is created pending, every change of
\* a booking's status starts from pending, and a completed or failed
\* booking's status never changes again.
C9_StatusStateMachine ==
    [][/\ \A b \in DOMAIN bookings :
             /\ b \in DOMAIN bookings'
             /\ bookings'[b].paymentStatus \in PaymentStatuses
             /\ bookings'[b].paymentStatus # bookings[b].paymentStatus
                    => bookings[b].paymentStatus = "pending"
       /\ \A b \in DOMAIN bookings' \ DOMAIN bookings :
             bookings'[b].paymentStatus = "pending"]_vars

\* A second processPayment ran to its end on a booking an earlier one had
\* completed.
C9_Witness ==
    \E q, r \in Requests :
        /\ q < r /\ ~Concurrent(q, r)
        /\ IsProcessPayment(q) /\ IsProcessPayment(r)
        /\ req[q].id = req[r].id
        /\ res[q].status = 200
        /\ pc[r] = "done" /\ res[r].status \in {200, 400}

\* ---- C10
\* A processPayment that succeeds leaves the booking completed and returns
\* that booking.
C10_PaymentCompletes ==
    \A r \in Requests :
        (IsProcessPayment(r) /\ pc[r] = "done" /\ res[r].status = 200)
        => /\ req[r].id \in DOMAIN bookings
           /\ bookings[req[r].id].paymentStatus = "completed"
           /\ res[r].booking = bookings[req[r].id]

\* The only processPayment so far, on a booking that was pending, succeeded.
C10_Witness ==
    \E r \in Requests :
        /\ IsProcessPayment(r) /\ pc[r] = "done" /\ res[r].status = 200
        /\ \A q \in Requests : q # r => ~IsProcessPayment(q)

\* ---- C11 (stated as claimed; the code violates it)
\* Expiry reclaims seats: no hold lasts forever. A booking that is pending
\* eventually stops being pending: it is paid, or, never paid, it is marked
\* failed and its seats go back to the screening.
C11_ExpiryReclaims ==
    \A b \in 1..MaxRequests : Pending(b) ~> ~Pending(b)

\* ---- C12 (stated as claimed; the code violates it)
\* processPayment run by the owner on a pending booking after its
\* reservationExpiry ends with an error and the booking marked failed; it
\* never goes on to confirm the booking.
C12_ExpiredPaymentRejected ==
    [][\A r \in Requests :
        ( /\ pc[r] = "findBooking"
          /\ pc'[r] # "findBooking"
          /\ Pending(req[r].id)
          /\ bookings[req[r].id].userId = req[r].user
          /\ now > ReservationExpiry(bookings[req[r].id]) )
        => /\ pc'[r] = "done"
           /\ res'[r].status >= 400
           /\ bookings'[req[r].id].paymentStatus = "failed"]_vars

\* ---- C13 (stated as claimed; the code violates it)
\* A failed payment step fails the booking: when the only processPayment for
\* a booking has ended in the error of its payment step, the booking is
\* failed; it is not left pending, holding its seats.
C13_FailedPaymentReleases ==
    \A r \in Requests :
        ( /\ IsProcessPayment(r) /\ pc[r] = "done"
          /\ res[r].status = 400
          /\ \A q \in Requests :
                (q # r /\ IsProcessPayment(q)) => req[q].id # req[r].id )
        => bookings[req[r].id].paymentStatus = "failed"

IsCancelBooking(r) == req[r].route = "cancelBooking"

\* ---- C14 (stated as claimed; the code violates it)
\* Round-trip cancel: when a createBooking has succeeded and its owner's
\* cancelBooking, sent afterwards and before any payment, has been answered,
\* with no other request made, the booking is cancelled and the screening's
\* availableSeats is what it was before the createBooking.
C14_RoundTripCancel ==
    \A q, r \in Requests :
        ( /\ IsCreateBooking(q) /\ res[q].status = 201
          /\ IsCancelBooking(r) /\ pc[r] = "done"
          /\ q < r /\ ~Concurrent(q, r)
          /\ req[r].id = res[q].booking.id
          /\ req[r].user = req[q].user
          /\ \A o \in Requests \ {q, r} : pc[o] = "idle" )
        => /\ bookings[req[r].id].paymentStatus = "cancelled"
           /\ screenings[req[q].screeningId].availableSeats
                = screenings[req[q].screeningId].capacity

Reserved(s) ==
    {r \in Requests :
        /\ IsCreateBooking(r) /\ req[r].screeningId = s /\ pc[r] = "done"
        /\ \/ res[r].status = 201
           \/ res[r].message = "Not enough seats available"}

\* One request run alone on an inventory of `avail` seats: all its seats are
\* taken, or none.
SerialStep(st, r) ==
    IF st.avail < Len(req[r].seats)
    THEN st
    ELSE [avail |-> st.avail - Len(req[r].seats),
          accepted |-> st.accepted \cup {r}]

\* The requests of `order` run one after the other, from its i-th on.
RECURSIVE SerialRun(_, _, _)
SerialRun(order, i, st) ==
    IF i > Len(order) THEN st
    ELSE SerialRun(order, i + 1, SerialStep(st, order[i]))

Orders(R) ==
    {o \in [1..Cardinality(R) -> R] : \A i, j \in DOMAIN o : i # j => o[i] # o[j]}

\* ---- C17 (stated as claimed; the code violates it)
\* Linearizable reservation: once the createBooking requests on a screening
\* have all been answered, none of them by a database error, the screening's
\* availableSeats and the set of accepted requests are those of some serial
\* execution of the same requests.
C17_Linearizable ==
    \A s \in DOMAIN screenings :
        ( \A r \in Requests :
            (IsCreateBooking(r) /\ req[r].screeningId = s)
                => (pc[r] = "done" /\ res[r].message # "error") )
        => \E o \in Orders(Reserved(s)) :
             LET end == SerialRun(o, 1, [avail |-> screenings[s].capacity,
                                         accepted |-> {}])
             IN  /\ end.avail = screenings[s].availableSeats
                 /\ end.accepted = {r \in Reserved(s) : res[r].status = 201}

\* ---- C18
\* Per-screening isolation: every step of a createBooking on screening S
\* leaves every other screening's document unchanged, and the only
\* screening document the handler holds is S's.
C18_Isolation ==
    [][\A r \in Requests :
        (pc'[r] # pc[r] /\ req'[r].route = "createBooking")
        => /\ \A t \in DOMAIN screenings :
                t # req'[r].screeningId => screenings'[t] = screenings[t]
           /\ local'[r].screening.id \in {0, req'[r].screeningId}]_vars

\* Two concurrent bookings on different screenings both succeeded, and each
\* screening lost exactly the seats of its own booking.
C18_Witness ==
    \E q, r \in Requests :
        /\ Concurrent(q, r)
        /\ IsCreateBooking(q) /\ IsCreateBooking(r)
        /\ res[q].status = 201 /\ res[r].status = 201
        /\ req[q].screeningId # req[r].screeningId
        /\ Len(req[q].seats) > 0 /\ Len(req[r].seats) > 0
        /\ \A o \in {q, r} :
              screenings[req[o].screeningId].availableSeats
                = screenings[req[o].screeningId].capacity - Len(req[o].seats)

\* ---- C19
\* A booking is immutable but for its status: no step changes the
\* totalAmount, seats, userId or screeningId of an existing booking.
C19_BookingImmutable ==
    [][\A b \in DOMAIN bookings :
        b \in DOMAIN bookings'
        => /\ bookings'[b].totalAmount = bookings[b].totalAmount
           /\ bookings'[b].seats = bookings[b].seats
           /\ bookings'[b].userId = bookings[b].userId
           /\ bookings'[b].screeningId = bookings[b].screeningId]_vars

\* A two-seat booking has been paid, a later booking exists, and the paid
\* booking still carries its amount.
C19_Witness ==
    \E b \in DOMAIN bookings :
        /\ bookings[b].paymentStatus = "completed"
        /\ Len(bookings[b].seats) = 2
        /\ bookings[b].totalAmount = 2 * screenings[bookings[b].screeningId].price
        /\ b < Len(bookings)

\* ---- C20
\* Bookings are never deleted: every booking that exists, exists under the
\* same id after every step.
C20_NeverDeleted ==
    [][\A b \in DOMAIN bookings :
        b \in DOMAIN bookings' /\ bookings'[b].id = bookings[b].id]_vars

\* A payment for the latest booking failed and the booking is still there.
C20_Witness ==
    \E r \in Requests :
        /\ IsProcessPayment(r) /\ pc[r] = "done" /\ res[r].status = 400
        /\ req[r].id = Len(bookings)

\* ---- C21 (stated as claimed; the code violates it)
\* Every persisted booking has a non-empty seat list: a createBooking whose
\* seats array is empty never creates a booking.
C21_NonEmptySeats ==
    \A b \in DOMAIN bookings : Len(bookings[b].seats) > 0

\* ---- C22 (stated as claimed; the code violates it)
\* Seat conservation: once the createBooking requests on a screening have
\* all been answered, none of them by a database error, the screening's
\* availableSeats is its initial availableSeats less the seats of all the
\* bookings created for it.
C22_SeatConservation ==
    \A s \in DOMAIN screenings :
        ( \A r \in Requests :
            (IsCreateBooking(r) /\ req[r].screeningId = s)
                => (pc[r] = "done" /\ res[r].message # "error") )
        => screenings[s].availableSeats = screenings[s].capacity - SeatsBooked(s)

\* ---- C23
\* availableSeats is never negative: in every reachable state, whatever the
\* interleaving of createBooking requests, every screening's availableSeats,
\* in the collection and in every handler's copy, is at least 0.
C23_NonNegative ==
    /\ \A s \in DOMAIN screenings : screenings[s].availableSeats >= 0
    /\ \A r \in Requests : local[r].screening.availableSeats >= 0

\* Two concurrent createBooking requests both took the last seat of a
\* screening, and its availableSeats is 0.
C23_Witness ==
    \E q, r \in Requests :
        /\ q # r /\ Concurrent(q, r)
        /\ IsCreateBooking(q) /\ IsCreateBooking(r)
        /\ req[q].screeningId = req[r].screeningId
        /\ res[q].status = 201 /\ res[r].status = 201
        /\ Len(req[q].seats) + Len(req[r].seats)
              > screenings[req[q].screeningId].capacity
        /\ screenings[req[q].screeningId].availableSeats = 0

\* ---- C25
\* Only the owner can pay: a processPayment whose user is not the booking's
\* userId ends at the ownership check with 403 and changes no booking; and
\* every step that makes a booking completed is a step of a processPayment
\* issued by the booking's own user.
C25_OnlyOwnerPays ==
    [][/\ \A r \in Requests :
             ( /\ pc[r] = "findBooking"
               /\ pc'[r] # "findBooking"
               /\ req[r].id \in DOMAIN bookings
               /\ bookings[req[r].id].userId # req[r].user )
             => /\ pc'[r] = "done"
                /\ res'[r].status = 403
                /\ bookings' = bookings
       /\ \A b \in DOMAIN bookings :
             ( /\ b \in DOMAIN bookings'
               /\ bookings[b].paymentStatus # "completed"
               /\ bookings'[b].paymentStatus = "completed" )
             => \E r \in Requests :
                   /\ IsProcessPayment(r) /\ req[r].id = b
                   /\ req[r].user = bookings[b].userId
                   /\ pc[r] = "savePayment" /\ pc'[r] = "done"]_vars

\* A stranger's processPayment was answered 403 while the booking was
\* pending, and the owner's processPayment then completed it.
C25_Witness ==
    \E q, r \in Requests :
        /\ q < r /\ ~Concurrent(q, r)
        /\ IsProcessPayment(q) /\ pc[q] = "done" /\ res[q].status = 403
        /\ IsProcessPayment(r) /\ pc[r] = "done" /\ res[r].status = 200
        /\ req[q].id = req[r].id
        /\ bookings[req[q].id].userId # req[q].user
        /\ bookings[req[r].id].userId = req[r].user
        /\ bookings[req[r].id].paymentStatus = "completed"

\* ---- C26
\* processPayment never touches the seat inventory: every step of a
\* processPayment, whether it succeeds or fails, leaves every screening
\* unchanged and every booking other than the addressed one unchanged.
C26_PaymentFrame ==
    [][\A r \in Requests :
        (pc'[r] # pc[r] /\ req'[r].route = "processPayment")
        => /\ screenings' = screenings
           /\ Len(bookings') = Len(bookings)
           /\ \A b \in DOMAIN bookings :
                 b # req'[r].id => bookings'[b] = bookings[b]]_vars

\* A processPayment succeeded while another booking exists, which is still
\* pending, and the screening's inventory is what the bookings left.
C26_Witness ==
    \E r \in Requests :
        /\ IsProcessPayment(r) /\ pc[r] = "done" /\ res[r].status = 200
        /\ \E b \in DOMAIN bookings :
              /\ b # req[r].id
              /\ bookings[b].paymentStatus = "pending"
              /\ Len(bookings[b].seats) > 0

IsCreateScreening(r) == req[r].route = "createScreening"

\* ---- C24 (stated as claimed; the code violates it)
\* In every reachable state every screening's availableSeats is at most its
\* capacity; in particular no screening is created through
\* POST /api/screenings with availableSeats greater than capacity.
C24_AvailableWithinCapacity ==
    \A s \in DOMAIN screenings :
        screenings[s].availableSeats <= screenings[s].capacity

\* ---- C27
\* A createBooking or processPayment request that carries no token, or a
\* token not signed with the server's key, or an expired one, is answered by
\* the middleware (401 without a token, 403 otherwise): the handler does not
\* start, and no booking and no screening changes.
C27_Unauthenticated ==
    [][\A r \in Requests :
        ( /\ pc[r] = "idle"
          /\ pc'[r] # "idle"
          /\ req'[r].route \in {"createBooking", "processPayment"}
          /\ \/ req'[r].token = NoToken
             \/ req'[r].token.secret # Secret
             \/ req'[r].token.expired )
        => /\ pc'[r] = "done"
           /\ res'[r].status = (IF req'[r].token = NoToken THEN 401 ELSE 403)
           /\ local'[r] = NoLocal
           /\ req'[r].user = ""
           /\ bookings' = bookings
           /\ screenings' = screenings]_vars

\* A createBooking without a token was answered 401, and a processPayment
\* with the owner's expired token on a pending booking was answered 403; the
\* booking is still pending.
C27_Witness ==
    \E q, r \in Requests :
        /\ IsCreateBooking(q) /\ req[q].token = NoToken
        /\ pc[q] = "done" /\ res[q].status = 401
        /\ IsProcessPayment(r) /\ req[r].token.expired
        /\ req[r].token.secret = Secret
        /\ pc[r] = "done" /\ res[r].status = 403
        /\ req[r].id \in DOMAIN bookings
        /\ bookings[req[r].id].userId = req[r].token.id
        /\ bookings[req[r].id].paymentStatus = "pending"

\* ---- C28
\* Screenings are created only by admins: a POST /api/screenings whose
\* token does not carry the role admin is answered 403 and creates no
\* screening; every step that adds a screening is the save of a request
\* authenticated with role admin; and no step changes the capacity or the
\* price of an existing screening.
C28_AdminOnly ==
    [][/\ \A r \in Requests :
             ( /\ pc[r] = "idle"
               /\ pc'[r] # "idle"
               /\ req'[r].route = "createScreening"
               /\ req'[r].token.role # "admin" )
             => /\ pc'[r] = "done"
                /\ res'[r].status = 403
                /\ screenings' = screenings
       /\ Len(screenings') # Len(screenings)
             => \E r \in Requests :
                   /\ IsCreateScreening(r)
                   /\ req[r].token.role = "admin"
                   /\ req[r].token.secret = Secret
                   /\ req[r].role = "admin"
                   /\ pc[r] = "saveNewScreening" /\ pc'[r] = "done"
                   /\ screenings' = Append(screenings, screenings'[Len(screenings')])
       /\ \A s \in DOMAIN screenings :
             /\ s \in DOMAIN screenings'
             /\ screenings'[s].capacity = screenings[s].capacity
             /\ screenings'[s].price = screenings[s].price]_vars

\* A user's POST /api/screenings was answered 403 with no screening
\* created; an admin then created one, and a booking has since taken seats
\* of it without changing its capacity or price.
C28_Witness ==
    \E q, r \in Requests :
        /\ q < r
        /\ IsCreateScreening(q) /\ req[q].token.role = "user"
        /\ pc[q] = "done" /\ res[q].status = 403
        /\ IsCreateScreening(r) /\ req[r].token.role = "admin"
        /\ pc[r] = "done" /\ res[r].status = 201
        /\ Len(screenings) = 1
        /\ screenings[1].capacity = req[r].capacity
        /\ screenings[1].price = req[r].price
        /\ screenings[1].availableSeats < req[r].availableSeats

====
